---- MODULE Spec2Model ----
(***************************************************************************)
(* AgileMind: the agent execution and hand-off engine.                     *)
(*                                                                         *)
(* One Agent object (agilemind/execution/agent.py) is driven through       *)
(* Agent.process calls against a shared Context                            *)
(* (agilemind/context/context.py).  The completion client and the tool     *)
(* executor are the environment: every round the client either raises a    *)
(* retryable error or returns a message (content, usage, tool calls).      *)
(*                                                                         *)
(* Spec follows one process call, made with clear_memory = True, through   *)
(* all attempts of the retry decorator.  SpecCalls follows successive      *)
(* process calls on one agent, SpecRetry the same with failing attempts,   *)
(* SpecContexts the Context objects and their class attributes,            *)
(* SpecThreads two process invocations of one Agent object at the same     *)
(* time, SpecRun the pipeline run of waterfall.py with its trace, and       *)
(* SpecWindows the LogWindow objects of agilemind/utils/window.py with     *)
(* their interception of print.                                            *)
(* The retry decorator, execute_tool, TokenUsage, Cost, calculate_cost     *)
(* and the Runner are not part of the sources at hand; they are modelled   *)
(* as the specification describes them.                                    *)
(***************************************************************************)
EXTENDS Integers, Sequences, FiniteSets, TLC

(***************************************************************************)
(* Bounds of the model.                                                    *)
(***************************************************************************)
\* largest max_iterations argument passed to process
MaxIterArg == 2
\* rounds the client answers in one attempt when max_iterations is None
MaxRounds == 2

\* threads that invoke process on the same Agent object at the same time
MaxThreads == 2

\* LogWindow objects constructed
MaxWindows == 2

\* largest log_height a LogWindow is constructed with
MaxLogHeight == 2

\* non-blank lines logged to the windows, all together
MaxLogged == 3

\* attempts the retry decorator makes before it re-raises
RetryLimit == 3

\* max_iterations = None (no limit), as an integer no round count equals;
\* negative max_iterations arguments (which behave like 0) are not drawn
NoLimit == -1

(***************************************************************************)
(* Values.                                                                 *)
(***************************************************************************)
\* Python's None
None == "None"

\* name of the agent whose process method is modelled
SelfName == "a"
\* names a handoff_to_<name> tool call may carry
TargetNames == {"b", "c"}
\* the agents of waterfall.py
WaterfallAgents == {"demand_analyst", "architect", "programmer", "quality_assurance"}

\* the handoffs list an agent is constructed with (agents named by .name)
HandoffLists == {<<"b">>, <<"b", "c">>}
\* the next_agent an agent is constructed with
NextAgents == {None, "c"}
\* the instructions argument of the hand-off request to agent n
InstructionsFor(n) == IF n = "b" THEN "do X" ELSE "do Y"
\* clear_memory of a process call (its default)
ClearMemoryArgs == {TRUE}
\* input_text of a process call
InputTexts == {"hello"}
\* content of a response message
Contents == {"hi"}
\* what execute_tool returns: a result that reports success or failure
ToolResults == {"ok", "fail"}
\* a response without usage (hasattr(response, "usage") and response.usage is false)
NoUsage == [present |-> FALSE, prompt_tokens |-> 0, completion_tokens |-> 0]
\* response.usage with its prompt and completion token counts
SomeUsage == [present |-> TRUE, prompt_tokens |-> 2, completion_tokens |-> 1]

VARIABLES
    \* Agent configuration (Agent.__init__)
    multi_turn, handoffs, next_agent,
    \* Agent fields
    rounds, memory,
    \* Context fields
    history, token_usage, cost,
    \* the process call in progress: its arguments
    input_text, max_iterations, clear_memory,
    \* the locals of _process_with_retry
    messages, current_round, total_token_usage, final_output, final_reason,
    handoff_target, handoff_instructions, round_number,
    \* control: where the call stands, the attempt of the retry decorator,
    \* what process returned or raised
    pc, attempt, result, error,
    \* observation of the run: process calls made, what the latest completion
    \* request of the current attempt returned (NoResponse when it raised or
    \* none was issued), completion requests issued by the current attempt,
    \* total_tokens and tool calls of each response the current attempt
    \* received (received, received_calls), ids of the
    \* tool calls the current attempt handed to execute_tool, history length
    \* at the start of the call
    ncalls, last_response, requests, received, received_calls, dispatched, history_at_call,
    \* self.memory at the start of the call, and the tools argument of the
    \* latest completion request of the call (the names of the tools it offers)
    memory_at_call, exposed,
    \* the Agent object whose process call the variables above follow
    \* (Agent.name), and the arguments (agent, input, clear_memory) of every
    \* process call made so far
    self_name, invoked,
    \* the pipeline run: the fields (rounds, memory) of the agents of the
    \* graph while another agent is being invoked, the agent invocations the
    \* Runner has made, where the run stands, and the file trace.txt
    agents, hops, run_state, trace,
    \* the class attributes Context.document and Context.used_tools
    \* (Context.history is the variable history), the Context objects created
    \* so far, and what was added through each of them
    document, used_tools, instances, added_via,
    \* two process invocations of one Agent object in progress at the same
    \* time: the locals of each, and which invocation wrote each entry of
    \* self.rounds and of self.memory
    threads, rounds_owner, memory_owner,
    \* the LogWindow objects created so far (utils/window.py), and the
    \* function builtins.print is bound to
    windows, print_fn

\* the variables of a pipeline run
runVars == <<agents, hops, run_state, trace>>

\* the variables of the Context objects
ctxVars == <<document, used_tools, instances, added_via>>

\* the variables of concurrent invocations
thrVars == <<threads, rounds_owner, memory_owner>>

\* the variables of the log windows
winVars == <<windows, print_fn>>

vars == <<multi_turn, handoffs, next_agent, rounds, memory, history,
          token_usage, cost, memory_at_call, exposed, input_text, max_iterations, clear_memory, messages,
          current_round, total_token_usage, final_output, final_reason,
          handoff_target, handoff_instructions, round_number, pc, attempt,
          result, error, ncalls, last_response, requests, received, received_calls,
          dispatched, history_at_call, self_name, invoked, runVars, ctxVars,
          thrVars, winVars>>


(***************************************************************************)
(* The completion response and its tool calls.                             *)
(***************************************************************************)
\* every agent name a hand-off request can carry
AgentNames == TargetNames \cup WaterfallAgents

\* tool_call.function.name of the synthetic hand-off tool of agent n
HandoffToolName(n) ==
    CASE n = "b" -> "handoff_to_b"
      [] n = "c" -> "handoff_to_c"
      [] n = "quality_assurance" -> "handoff_to_quality_assurance"
      [] n = "programmer" -> "handoff_to_programmer"
      [] n = "architect" -> "handoff_to_architect"
      [] n = "demand_analyst" -> "handoff_to_demand_analyst"

\* tool_name.startswith("handoff_to_")
IsHandoffName(tool_name) == \E n \in AgentNames : tool_name = HandoffToolName(n)

\* tool_name[len("handoff_to_"):]
TargetOf(tool_name) == CHOOSE n \in AgentNames : tool_name = HandoffToolName(n)

\* a call of a regular tool; json_ok says whether its arguments parse
RegularCalls ==
    { [name |-> "write_file", json_ok |-> TRUE, instructions |-> None, tool_result |-> r] :
        r \in ToolResults }
    \cup { [name |-> "write_file", json_ok |-> FALSE, instructions |-> None, tool_result |-> "ok"] }

\* a hand-off request with its instructions argument
HandoffCalls ==
    { [name |-> HandoffToolName(n), json_ok |-> TRUE, instructions |-> InstructionsFor(n),
       tool_result |-> None] : n \in TargetNames }

\* the work-done signal
WorkDoneCalls ==
    { [name |-> "work_done", json_ok |-> TRUE, instructions |-> None, tool_result |-> None] }

ToolCalls == RegularCalls \cup HandoffCalls \cup WorkDoneCalls

\* the lists of tool calls a response may carry: none, one, or two in
\* either order
ToolCallLists ==
    {<<>>} \cup { <<x>> : x \in ToolCalls } \cup { <<x, y>> : x, y \in ToolCalls }

\* what client.chat.completions.create returns: a message with usage and any
\* list of tool calls, or a plain message without usage
Responses ==
    { [content |-> c, usage |-> SomeUsage, tool_calls |-> tcs] :
        c \in Contents, tcs \in ToolCallLists }
    \cup { [content |-> c, usage |-> NoUsage, tool_calls |-> <<>>] : c \in Contents }

(***************************************************************************)
(* Transcript turns.                                                       *)
(***************************************************************************)
SystemTurn == [role |-> "system", content |-> "instructions", tool_call_id |-> <<>>, tool |-> None]

UserTurn(text) == [role |-> "user", content |-> text, tool_call_id |-> <<>>, tool |-> None]

AssistantTurn(content, id, tool_name) ==
    [role |-> "assistant", content |-> content, tool_call_id |-> id, tool |-> tool_name]

\* json.dumps(tool_result)
ToolTurn(id, tool_result) ==
    [role |-> "tool", content |-> tool_result, tool_call_id |-> id, tool |-> None]

\* x in list
InSeq(x, s) == \E i \in 1..Len(s) : s[i] = x

\* list.append(x) unless x is already in the list
AppendNew(s, x) == IF InSeq(x, s) THEN s ELSE Append(s, x)

\* f"Tool results: {json.dumps(tool_result)}"
ToolResultsInput(tool_result) ==
    IF tool_result = "ok" THEN "Tool results: ok" ELSE "Tool results: fail"

(***************************************************************************)
(* _prepare_messages                                                       *)
(***************************************************************************)
\* self.memory after _prepare_messages(text, clear)
PreparedMemory(mem, text, clear) ==
    IF clear THEN <<>> ELSE AppendNew(mem, UserTurn(text))

\* faulty variant: the memory enters the transcript although clear_memory is set
PreparedMessagesKeeping(mem, text, clear) ==
    <<SystemTurn>> \o mem \o <<UserTurn(text)>>

\* the list _prepare_messages(text, clear) returns
PreparedMessages(mem, text, clear) ==
    <<SystemTurn>> \o (IF clear THEN <<>> ELSE mem) \o <<UserTurn(text)>>

\* token counts, as the dicts total_token_usage and current_round["token_usage"]
ZeroUsage == [prompt_tokens |-> 0, completion_tokens |-> 0, total_tokens |-> 0]

\* the current_round dict a round starts with (tool_calls: <<>> stands for
\* None; token_usage: has_usage is FALSE while the entry is None)
NewRound(text) ==
    [input |-> text, output |-> None, tool_calls |-> <<>>, handoff |-> None,
     has_usage |-> FALSE, token_usage |-> ZeroUsage, reason |-> None]

\* result["handoff"] when it is None
NoHandoff == [to |-> None, instruction |-> None]

\* the value of the variable result while process has not returned
NoResult ==
    [input |-> None, output |-> None, usage |-> ZeroUsage, reason |-> None,
     handoff |-> NoHandoff]

(***************************************************************************)
(* The loop over response_message.tool_calls.  Its state is a record ls    *)
(* of the locals and fields the loop body reads and writes; raised is set  *)
(* when json.loads raises JSONDecodeError.                                 *)
(***************************************************************************)
\* faulty variant: a tool result that reports failure is raised as an exception
HandleToolRaising(ls, tc, content, id) ==
    IF ~tc.json_ok \/ tc.tool_result = "fail"
    THEN [ls EXCEPT !.raised = TRUE]
    ELSE LET assistant == AssistantTurn(content, id, tc.name)
             tool == ToolTurn(id, tc.tool_result)
         IN  [ls EXCEPT !.tool_result = tc.tool_result,
                        !.current_round_tool_calls =
                            Append(@, [tool |-> tc.name, result |-> tc.tool_result]),
                        !.dispatched = Append(@, id),
                        !.messages = @ \o <<assistant, tool>>,
                        !.memory = AppendNew(AppendNew(@, assistant), tool)]

\* faulty variant: the requested name is taken as the target without looking it up
ResolveHandoffUnchecked(hs, target_agent_name) == target_agent_name

\* the agent of self.handoffs whose name is target_agent_name, None if none
ResolveHandoff(hs, target_agent_name) ==
    IF InSeq(target_agent_name, hs) THEN target_agent_name ELSE None

\* faulty variant: the instructions are kept only when the target is found
HandleHandoffCheckedFirst(ls, hs, tc) ==
    IF ~tc.json_ok
    THEN [ls EXCEPT !.raised = TRUE]
    ELSE LET agent == ResolveHandoff(hs, TargetOf(tc.name))
         IN  IF agent # None
             THEN [ls EXCEPT !.handoff_instructions = tc.instructions,
                             !.current_round.handoff = agent,
                             !.current_round.reason = "handoff",
                             !.handoff_target = agent,
                             !.final_reason = "handoff",
                             !.handoff_requested = TRUE]
             ELSE ls

\* the branch tool_name.startswith("handoff_to_")
HandleHandoff(ls, hs, tc) ==
    IF ~tc.json_ok
    THEN [ls EXCEPT !.raised = TRUE]
    ELSE LET agent == ResolveHandoff(hs, TargetOf(tc.name))
             ls1 == [ls EXCEPT !.handoff_instructions = tc.instructions]
         IN  IF agent # None
             THEN [ls1 EXCEPT !.current_round.handoff = agent,
                              !.current_round.reason = "handoff",
                              !.handoff_target = agent,
                              !.final_reason = "handoff",
                              !.handoff_requested = TRUE]
             ELSE ls1

\* the branch tool_name == "work_done"
HandleWorkDone(ls) ==
    [ls EXCEPT !.work_done_called = TRUE,
               !.current_round.reason = "work_done",
               !.final_reason = "work_done"]

\* faulty variant: the tool-result turn is appended before the assistant turn
HandleToolResultFirst(ls, tc, content, id) ==
    IF ~tc.json_ok
    THEN [ls EXCEPT !.raised = TRUE]
    ELSE LET assistant == AssistantTurn(content, id, tc.name)
             tool == ToolTurn(id, tc.tool_result)
         IN  [ls EXCEPT !.tool_result = tc.tool_result,
                        !.current_round_tool_calls =
                            Append(@, [tool |-> tc.name, result |-> tc.tool_result]),
                        !.dispatched = Append(@, id),
                        !.messages = @ \o <<tool, assistant>>,
                        !.memory = AppendNew(AppendNew(@, assistant), tool)]

\* the else branch: execute the tool, record it, extend messages and memory
HandleTool(ls, tc, content, id) ==
    IF ~tc.json_ok
    THEN [ls EXCEPT !.raised = TRUE]
    ELSE LET assistant == AssistantTurn(content, id, tc.name)
             tool == ToolTurn(id, tc.tool_result)
         IN  [ls EXCEPT !.tool_result = tc.tool_result,
                        !.current_round_tool_calls =
                            Append(@, [tool |-> tc.name, result |-> tc.tool_result]),
                        !.dispatched = Append(@, id),
                        !.messages = @ \o <<assistant, tool>>,
                        !.memory = AppendNew(AppendNew(@, assistant), tool)]

\* tool_call.id: the client gives every tool call an id of its own, here
\* the process call, the attempt, the round and the position in the response
ToolCallId(rn, i) == <<ncalls, attempt, rn, i>>

\* one iteration of the for loop
HandleToolCall(ls, hs, tc, content, id) ==
    IF IsHandoffName(tc.name) THEN HandleHandoff(ls, hs, tc)
    ELSE IF tc.name = "work_done" THEN HandleWorkDone(ls)
    ELSE HandleTool(ls, tc, content, id)

\* the for loop from its i-th tool call on; it stops at the break of a
\* resolved hand-off and at an exception
RECURSIVE ForToolCalls(_, _, _, _, _, _)
ForToolCalls(ls, hs, tcs, i, content, rn) ==
    IF i > Len(tcs) \/ ls.raised \/ ls.handoff_requested
    THEN ls
    ELSE ForToolCalls(HandleToolCall(ls, hs, tcs[i], content, ToolCallId(rn, i)),
                      hs, tcs, i + 1, content, rn)

(***************************************************************************)
(* Token accounting.                                                       *)
(***************************************************************************)
\* total_token_usage after the += of one response's usage
\* (response.usage.total_tokens is prompt_tokens + completion_tokens)
AddUsage(total, u) ==
    [prompt_tokens |-> total.prompt_tokens + u.prompt_tokens,
     completion_tokens |-> total.completion_tokens + u.completion_tokens,
     total_tokens |-> total.total_tokens + u.prompt_tokens + u.completion_tokens]

\* current_round["token_usage"] for one response's usage
RoundUsage(u) == AddUsage(ZeroUsage, u)

\* faulty variant: the running totals are replaced by the latest usage
UpdateTokenUsageResetting(tu, u, agent_name, rn) ==
    [prompt_tokens |-> u.prompt_tokens,
     completion_tokens |-> u.completion_tokens,
     total_tokens |-> u.prompt_tokens + u.completion_tokens,
     by_round |-> [k \in DOMAIN tu.by_round \cup {<<agent_name, rn>>} |->
                      u.prompt_tokens + u.completion_tokens]]

\* Context.update_token_usage -> TokenUsage.update: the running totals and
\* the totals per (agent_name, round_number)
UpdateTokenUsage(tu, u, agent_name, rn) ==
    LET key == <<agent_name, rn>>
        old == IF key \in DOMAIN tu.by_round THEN tu.by_round[key] ELSE 0
    IN  [prompt_tokens |-> tu.prompt_tokens + u.prompt_tokens,
         completion_tokens |-> tu.completion_tokens + u.completion_tokens,
         total_tokens |-> tu.total_tokens + u.prompt_tokens + u.completion_tokens,
         by_round |-> [k \in DOMAIN tu.by_round \cup {key} |->
                          IF k = key THEN old + u.prompt_tokens + u.completion_tokens
                          ELSE tu.by_round[k]]]

\* the rates of calculate_cost, in cost units per token
PromptRate == 1

CompletionRate == 2

\* calculate_cost(model, prompt_tokens, completion_tokens)
CalculateCost(u) ==
    [prompt_cost |-> PromptRate * u.prompt_tokens,
     completion_cost |-> CompletionRate * u.completion_tokens,
     total_cost |-> PromptRate * u.prompt_tokens + CompletionRate * u.completion_tokens]

\* Context.cost after Context.__init__
NoCost == [prompt_cost |-> 0, completion_cost |-> 0, total_cost |-> 0, by_round |-> <<>>]

\* Context.update_cost -> Cost.update: the running totals and the totals
\* per (agent_name, round_number)
UpdateCost(c, ci, agent_name, rn) ==
    LET key == <<agent_name, rn>>
        old == IF key \in DOMAIN c.by_round THEN c.by_round[key] ELSE 0
    IN  [prompt_cost |-> c.prompt_cost + ci.prompt_cost,
         completion_cost |-> c.completion_cost + ci.completion_cost,
         total_cost |-> c.total_cost + ci.total_cost,
         by_round |-> [k \in DOMAIN c.by_round \cup {key} |->
                          IF k = key THEN old + ci.total_cost ELSE c.by_round[k]]]

\* self.tools of the agent named n, as a list of tool names: the programmer
\* of the waterfall and the agent SelfName have tools, the others none
OwnTools(n) == IF n \in {SelfName, "programmer"} THEN <<"write_file">> ELSE <<>>

\* tools_with_handoffs: the agent's own tools followed by one hand-off tool
\* for each agent of self.handoffs
ToolsWithHandoffs(own, hs) == own \o [i \in 1..Len(hs) |-> HandoffToolName(hs[i])]

\* the tools argument of the completion request (None when the list is
\* empty), as the set of the names of the tools the request offers
RequestTools(twh) == {twh[i] : i \in DOMAIN twh}

\* the Python type of result["handoff"]["to"]: handoff_target is the Agent
\* object taken from self.handoffs or self.next_agent (the model names the
\* object by its name), and result["handoff"] is None without a target
HandoffToType(res) == IF res.handoff.to = None THEN "NoneType" ELSE "Agent"

\* the types json.dumps serializes
JsonTypes == {"NoneType", "str", "int", "float", "bool", "dict", "list"}

\* trace.txt before dev has written it
NoTrace == [written |-> FALSE, history |-> <<>>]

\* faulty variant: the new entry replaces the entries recorded before
AddHistoryOverwriting(h, step, data) == <<[step |-> step, data |-> data]>>

\* Context.add_history (the time stamp of the entry is left out)
AddHistory(h, step, data) == Append(h, [step |-> step, data |-> data])

(***************************************************************************)
(* The end of _process_with_retry: the forced hand-off and the result.     *)
(***************************************************************************)
\* faulty variant: the loop is entered whatever max_iterations is
WhileCondAlways(max_iter, rn) == TRUE

\* faulty variant: the comparison is off by one
WhileCondOffByOne(max_iter, rn) == max_iter = NoLimit \/ rn <= max_iter

\* the condition of the while loop
WhileCond(max_iter, rn) == max_iter = NoLimit \/ rn < max_iter

\* faulty variant: the reason of the last entry is left as it was
ForcedRoundsReasonKept(rs, next) ==
    IF next = None THEN rs ELSE [rs EXCEPT ![Len(rs)].handoff = next]

\* self.rounds after the forced hand-off has been written to its last entry
ForcedRounds(rs, next) ==
    IF next = None THEN rs
    ELSE [rs EXCEPT ![Len(rs)].handoff = next,
                    ![Len(rs)].reason = IF @ # "work_done" THEN "handoff" ELSE @]

\* faulty variant: the forced hand-off overwrites the work_done reason too
ForcedReasonAlways(rs, next, fr) == IF next # None THEN "handoff" ELSE fr

\* final_reason after the forced hand-off
ForcedReason(rs, next, fr) ==
    IF next # None /\ rs[Len(rs)].reason # "work_done" THEN "handoff" ELSE fr

\* faulty variant: the model's choice is kept when there is one
ForcedTargetUnlessChosen(next, ht) == IF ht # None THEN ht ELSE next

\* handoff_target after the forced hand-off
ForcedTarget(next, ht) == IF next # None THEN next ELSE ht

\* faulty variant: the result echoes the input as its output
MakeResultEchoingInput(text, fo, ttu, fr, ht, hi) ==
    [input |-> text, output |-> text, usage |-> ttu, reason |-> fr,
     handoff |-> IF ht # None
                 THEN [to |-> ht, instruction |-> IF hi = None THEN "" ELSE hi]
                 ELSE NoHandoff]

\* the result dict
MakeResult(text, fo, ttu, fr, ht, hi) ==
    [input |-> text, output |-> fo, usage |-> ttu, reason |-> fr,
     handoff |-> IF ht # None
                 THEN [to |-> ht, instruction |-> IF hi = None THEN "" ELSE hi]
                 ELSE NoHandoff]

\* Context.dump(): the fields that change during a run
Dump(doc, h, ut, tu, c) ==
    [document |-> doc, history |-> h, used_tools |-> ut, token_usage |-> tu, cost |-> c]

(***************************************************************************)
(* The state machine.                                                      *)
(***************************************************************************)
\* one entry of invoked
Invocation(agent, text, clear) == [agent |-> agent, input |-> text, clear |-> clear]

\* no pipeline run is under way
NoRun ==
    /\ agents = <<>>
    /\ hops = 0
    /\ run_state = "off"
    /\ trace = NoTrace

\* no Context object has been created
NoContexts ==
    /\ document = <<>>
    /\ used_tools = <<>>
    /\ instances = <<>>
    /\ added_via = <<>>

\* the locals of a process invocation that has not been entered
IdleThread ==
    [pc |-> "idle", input_text |-> None, messages |-> <<>>,
     current_round |-> NewRound(None), round_number |-> 0, final_output |-> None,
     final_reason |-> None, handoff_target |-> None, handoff_instructions |-> None,
     result |-> NoResult]

\* no concurrent invocations are under way
NoThreads ==
    /\ threads = [t \in 1..MaxThreads |-> IdleThread]
    /\ rounds_owner = <<>>
    /\ memory_owner = <<>>

\* the built-in print function; the custom_print function that redirects
\* to the window w is named by w
BuiltinPrint == 0

\* a LogWindow that has not been constructed; logged keeps every non-blank
\* line passed to log so far, closed says that close was the last of open
\* and close to be called
NoWindow ==
    [created |-> FALSE, live |-> FALSE, hidden |-> FALSE, restore |-> FALSE,
     original_print |-> BuiltinPrint, log_height |-> 0, logs |-> <<>>,
     logged |-> <<>>, closed |-> FALSE]

\* no LogWindow has been constructed and print is the built-in function
NoWindows ==
    /\ windows = [w \in 1..MaxWindows |-> NoWindow]
    /\ print_fn = BuiltinPrint

NoResponse == [round |-> 0, content |-> None, usage |-> NoUsage, tool_calls |-> <<>>]

\* the fields of an Agent and of a Context after construction, and no
\* process call made yet
InitCall ==
    /\ rounds = <<>>
    /\ memory = <<>>
    /\ history = <<>>
    /\ token_usage = [prompt_tokens |-> 0, completion_tokens |-> 0,
                      total_tokens |-> 0, by_round |-> <<>>]
    /\ input_text = None
    /\ max_iterations = NoLimit
    /\ clear_memory = TRUE
    /\ messages = <<>>
    /\ current_round = NewRound(None)
    /\ total_token_usage = ZeroUsage
    /\ final_output = None
    /\ final_reason = None
    /\ handoff_target = None
    /\ handoff_instructions = None
    /\ round_number = 0
    /\ pc = "idle"
    /\ attempt = 0
    /\ result = NoResult
    /\ error = None
    /\ ncalls = 0
    /\ last_response = NoResponse
    /\ requests = 0
    /\ received = <<>>
    /\ received_calls = <<>>
    /\ dispatched = <<>>
    /\ history_at_call = 0
    /\ memory_at_call = <<>>
    /\ exposed = {}
    /\ cost = NoCost
    /\ invoked = <<>>

Init ==
    /\ multi_turn \in BOOLEAN
    /\ handoffs \in HandoffLists
    /\ next_agent \in NextAgents
    /\ self_name = SelfName
    /\ InitCall
    /\ NoRun
    /\ NoContexts
    /\ NoThreads
    /\ NoWindows

\* faulty variant: self.rounds is not emptied
KeptRounds(rs) == rs

\* self.rounds = [] at the start of an execution (line 206)
FreshRounds(rs) == <<>>

\* the start of one execution of _process_with_retry (lines 203-251), with
\* self.memory = mem before it
AttemptStart(mem, text, clear) ==
    /\ messages' = PreparedMessages(mem, text, clear)
    /\ memory' = PreparedMemory(mem, text, clear)
    /\ rounds' = FreshRounds(rounds)
    /\ current_round' = NewRound(text)
    /\ total_token_usage' = ZeroUsage
    /\ final_output' = None
    /\ final_reason' = None
    /\ handoff_target' = None
    /\ handoff_instructions' = None
    /\ round_number' = 0
    /\ requests' = 0
    /\ received' = <<>>
    /\ received_calls' = <<>>
    /\ dispatched' = <<>>
    /\ last_response' = NoResponse
    /\ pc' = "loop"

\* process(context, text, mi, cm) is entered on the agent named agent, whose
\* self.memory is mem: the first execution of _process_with_retry starts
ProcessCall(agent, mem, text, mi, cm) ==
    /\ invoked' = Append(invoked, Invocation(agent, text, cm))
    /\ input_text' = text
    /\ max_iterations' = mi
    /\ clear_memory' = cm
    /\ AttemptStart(mem, text, cm)
    /\ attempt' = 1
    /\ ncalls' = ncalls + 1
    /\ result' = NoResult
    /\ error' = None
    /\ history_at_call' = Len(history)
    /\ memory_at_call' = mem
    /\ exposed' = {}

\* a caller invokes agent.process(context, text, mi, cm)
Call ==
    /\ pc = "idle"
    /\ \E text \in InputTexts, mi \in {NoLimit} \cup (0..MaxIterArg), cm \in ClearMemoryArgs :
        ProcessCall(self_name, memory, text, mi, cm)
    /\ UNCHANGED <<multi_turn, handoffs, next_agent, history, token_usage,
                   cost, self_name, runVars, ctxVars, thrVars, winVars>>

\* the retry decorator: whether a failed attempt is followed by another
CanRetry(att) == att < RetryLimit

\* faulty variant: process records a history entry although the call raised
HistoryOnRaiseLogged(h, step) == Append(h, [step |-> step, data |-> NoResult])

\* context.history when _process_with_retry raises into process: line 165
\* (add_history) is not reached
HistoryOnRaise(h, step) == h

\* the retry decorator catches one of its exceptions: it calls
\* _process_with_retry again with the same arguments, or re-raises once
\* RetryLimit attempts have failed; mem is self.memory at the exception and
\* resp what the failed round's completion request had returned
RetryOrRaise(mem, resp) ==
    IF CanRetry(attempt)
    THEN /\ attempt' = attempt + 1
         /\ AttemptStart(mem, input_text, clear_memory)
         /\ UNCHANGED <<result, error, history>>
    ELSE /\ pc' = "raised"
         /\ error' = "ProviderError"
         /\ memory' = mem
         /\ requests' = requests + 1
         /\ history' = HistoryOnRaise(history, self_name)
         /\ last_response' = resp
         /\ UNCHANGED <<attempt, result, rounds, messages, current_round,
                        total_token_usage, final_output, final_reason,
                        handoff_target, handoff_instructions, round_number,
                        received, received_calls, dispatched>>

\* client.chat.completions.create raises (lines 258-273)
ProviderFailure ==
    /\ pc = "loop"
    /\ WhileCond(max_iterations, round_number)
    /\ max_iterations = NoLimit => round_number < MaxRounds
    /\ RetryOrRaise(memory, NoResponse)
    /\ exposed' = RequestTools(ToolsWithHandoffs(OwnTools(self_name), handoffs))
    /\ UNCHANGED <<multi_turn, handoffs, next_agent, token_usage, cost,
                   input_text, max_iterations, clear_memory, ncalls,
                   history_at_call, memory_at_call, self_name, invoked, runVars, ctxVars,
                   thrVars, winVars>>

\* lines 456-485 and process's add_history: rs, fo, ttu, fr, ht, hi are
\* self.rounds and the locals when the loop is left
Finish(rs, fo, ttu, fr, ht, hi) ==
    IF next_agent # None /\ rs = <<>>
    THEN \* self.rounds[-1] raises IndexError, which the decorator does not catch
         /\ pc' = "raised"
         /\ error' = "IndexError"
         /\ rounds' = rs
         /\ final_reason' = fr
         /\ handoff_target' = ht
         /\ UNCHANGED <<result, history>>
    ELSE /\ pc' = "returned"
         /\ rounds' = ForcedRounds(rs, next_agent)
         /\ final_reason' = ForcedReason(rs, next_agent, fr)
         /\ handoff_target' = ForcedTarget(next_agent, ht)
         /\ result' = MakeResult(input_text, fo, ttu,
                                 ForcedReason(rs, next_agent, fr),
                                 ForcedTarget(next_agent, ht), hi)
         /\ history' = AddHistory(history, self_name, result')
         /\ UNCHANGED error

\* the while condition is false on entry (max_iterations = 0)
ExitLoop ==
    /\ pc = "loop"
    /\ ~WhileCond(max_iterations, round_number)
    /\ Finish(rounds, final_output, total_token_usage, final_reason,
              handoff_target, handoff_instructions)
    /\ UNCHANGED <<multi_turn, handoffs, next_agent, memory, token_usage,
                   cost, memory_at_call, exposed, input_text, max_iterations, clear_memory, messages,
                   current_round, total_token_usage, final_output,
                   handoff_instructions, round_number, attempt,
                   ncalls, last_response, requests, received, received_calls, dispatched,
                   history_at_call, self_name, invoked, runVars, ctxVars,
                   thrVars, winVars>>

\* faulty variant: the round limit never gives the round its reason
RoundLimitReasonNever(reason, max_iter, rn) == reason

\* lines 417-424: the reason of the round once the round limit is looked at
RoundLimitReason(reason, max_iter, rn) ==
    IF max_iter # NoLimit /\ rn >= max_iter /\ reason = None
    THEN "round_limit" ELSE reason

\* faulty variant: a resolved hand-off does not leave the loop
BreakLoopIgnoringHandoff(tool_calls, handoff_requested, work_done_called, max_iter, rn, mt) ==
    \/ tool_calls = <<>>
    \/ work_done_called
    \/ (max_iter # NoLimit /\ rn >= max_iter)
    \/ ~mt

\* faulty variant: multi_turn is not looked at
BreakLoopIgnoringMultiTurn(tool_calls, handoff_requested, work_done_called, max_iter, rn, mt) ==
    \/ tool_calls = <<>>
    \/ handoff_requested
    \/ work_done_called
    \/ (max_iter # NoLimit /\ rn >= max_iter)

\* faulty variant: work_done does not end the loop
BreakLoopIgnoringWorkDone(tool_calls, handoff_requested, work_done_called, max_iter, rn, mt) ==
    \/ tool_calls = <<>>
    \/ handoff_requested
    \/ (max_iter # NoLimit /\ rn >= max_iter)
    \/ ~mt

\* lines 429-435: the condition under which the loop is left after a round
BreakLoop(tool_calls, handoff_requested, work_done_called, max_iter, rn, mt) ==
    \/ tool_calls = <<>>
    \/ handoff_requested
    \/ work_done_called
    \/ (max_iter # NoLimit /\ rn >= max_iter)
    \/ ~mt

\* faulty variant: the last round is not given the reason completed
BreakReasonKept(reason) == reason

\* lines 436-441: the reason of a round the loop is left after
BreakReason(reason) == IF reason = None THEN "completed" ELSE reason

\* the state of the for loop before its first iteration
LoopStart(cr, fr, ht, hi) ==
    [handoff_requested |-> FALSE, work_done_called |-> FALSE,
     current_round_tool_calls |-> <<>>, tool_result |-> None,
     messages |-> messages, memory |-> memory, current_round |-> cr,
     final_reason |-> fr, handoff_target |-> ht, handoff_instructions |-> hi,
     dispatched |-> dispatched, raised |-> FALSE]

\* lines 410-454 for a round whose for loop ended with the state ls: the
\* round as appended to self.rounds, final_reason, and whether the loop is left
AfterToolCalls(ls, max_iter, rn, mt) ==
    LET r3 == RoundLimitReason(ls.current_round.reason, max_iter, rn)
        fr3 == IF r3 # ls.current_round.reason THEN "round_limit" ELSE ls.final_reason
        brk == BreakLoop(ls.current_round_tool_calls, ls.handoff_requested,
                         ls.work_done_called, max_iter, rn, mt)
        r4 == IF brk THEN BreakReason(r3) ELSE r3
    IN  [round |-> [ls.current_round EXCEPT
                        !.tool_calls = ls.current_round_tool_calls,
                        !.reason = r4],
         final_reason |-> IF r4 # r3 THEN "completed" ELSE fr3,
         break |-> brk]

\* the response of round rn as last_response keeps it
Received(rn, response) ==
    [round |-> rn, content |-> response.content, usage |-> response.usage,
     tool_calls |-> response.tool_calls]

\* one iteration of the while loop whose completion request is answered by
\* one of the responses rs (lines 255-454), and what follows it when the
\* loop is left
RoundOn(rs) ==
    /\ pc = "loop"
    /\ WhileCond(max_iterations, round_number)
    /\ max_iterations = NoLimit => round_number < MaxRounds
    /\ \E response \in rs :
        LET rn == round_number + 1
            u == response.usage
            cr1 == [current_round EXCEPT
                        !.output = response.content,
                        !.has_usage = u.present,
                        !.token_usage = IF u.present THEN RoundUsage(u) ELSE @]
            ttu == IF u.present THEN AddUsage(total_token_usage, u)
                   ELSE total_token_usage
        IN  \E ls \in {ForToolCalls(
                         LoopStart(cr1, final_reason, handoff_target, handoff_instructions),
                         handoffs, response.tool_calls, 1, response.content, rn)} :
            /\ token_usage' = IF u.present
                              THEN UpdateTokenUsage(token_usage, u, self_name, rn)
                              ELSE token_usage
            /\ cost' = IF u.present
                       THEN UpdateCost(cost, CalculateCost(u), self_name, rn)
                       ELSE cost
            /\ exposed' = RequestTools(ToolsWithHandoffs(OwnTools(self_name), handoffs))
            /\ IF ls.raised
               THEN \* json.loads raised JSONDecodeError
                    /\ RetryOrRaise(ls.memory, Received(rn, response))
               ELSE \E after \in {AfterToolCalls(ls, max_iterations, rn, multi_turn)} :
                    /\ last_response' = Received(rn, response)
                    /\ messages' = ls.messages
                    /\ memory' = ls.memory
                    /\ total_token_usage' = ttu
                    /\ final_output' = response.content
                    /\ handoff_instructions' = ls.handoff_instructions
                    /\ round_number' = rn
                    /\ requests' = requests + 1
                    /\ received' = Append(received, u.prompt_tokens + u.completion_tokens)
                    /\ received_calls' = Append(received_calls, response.tool_calls)
                    /\ dispatched' = ls.dispatched
                    /\ UNCHANGED attempt
                    /\ IF after.break
                       THEN /\ current_round' = after.round
                            /\ Finish(Append(rounds, after.round), response.content, ttu,
                                      after.final_reason, ls.handoff_target,
                                      ls.handoff_instructions)
                       ELSE /\ current_round' = NewRound(ToolResultsInput(ls.tool_result))
                            /\ rounds' = Append(rounds, after.round)
                            /\ final_reason' = after.final_reason
                            /\ handoff_target' = ls.handoff_target
                            /\ pc' = "loop"
                            /\ UNCHANGED <<result, error, history>>
    /\ UNCHANGED <<multi_turn, handoffs, next_agent, input_text, max_iterations,
                   clear_memory, ncalls, history_at_call, memory_at_call,
                   self_name, invoked, runVars, ctxVars, thrVars, winVars>>

\* a round answered by any response
Round == RoundOn(Responses)

Next == Call \/ ProviderFailure \/ Round \/ ExitLoop

Spec == Init /\ [][Next]_vars

(***************************************************************************)
(* Properties.                                                             *)
(***************************************************************************)
\* the i-th tool call of the list is a hand-off request that names an agent
\* of self.handoffs
ValidHandoffAt(tcs, i) ==
    IsHandoffName(tcs[i].name) /\ InSeq(TargetOf(tcs[i].name), handoffs)

\* the for loop gets to the i-th tool call of the list: no earlier call made
\* json.loads raise and none was a resolved hand-off
ReachedAt(tcs, i) ==
    \A j \in 1..(i - 1) : tcs[j].json_ok /\ ~ValidHandoffAt(tcs, j)

\* the last response carried a hand-off request, resolved or not
HandoffRequested ==
    \E i \in DOMAIN last_response.tool_calls :
        IsHandoffName(last_response.tool_calls[i].name)

\* C1: the agent named in result.handoff.to is a member of the agent's
\* handoffs list or its next_agent, whatever hand-off requests the model made
C1_HandoffContainment ==
    (pc = "returned" /\ result.handoff # NoHandoff) =>
        \/ InSeq(result.handoff.to, handoffs)
        \/ (next_agent # None /\ result.handoff.to = next_agent)

\* C1 witness: the model asked for handoff_to_c, c is not in handoffs, and the
\* call returned a hand-off to b
C1_Witness ==
    /\ pc = "returned"
    /\ ~InSeq("c", handoffs)
    /\ \E i \in DOMAIN last_response.tool_calls :
           last_response.tool_calls[i].name = HandoffToolName("c")
    /\ result.handoff.to = "b"

\* C2: an agent with next_agent returns handoff.to = next_agent in every
\* result, whatever target the model chose
C2_ForcedSuccessor ==
    (pc = "returned" /\ next_agent # None) =>
        (result.handoff # NoHandoff /\ result.handoff.to = next_agent)

\* C2 witness: the model chose b, which is in handoffs, in the final round and
\* the result hands off to next_agent = c
C2_Witness ==
    /\ pc = "returned"
    /\ next_agent = "c"
    /\ \E i \in DOMAIN last_response.tool_calls :
           /\ last_response.tool_calls[i].name = HandoffToolName("b")
           /\ ValidHandoffAt(last_response.tool_calls, i)
           /\ ReachedAt(last_response.tool_calls, i)
    /\ rounds[Len(rounds)].reason = "handoff"
    /\ result.handoff.to = "c"

\* what C3 promises for the hand-off request at position i of the last
\* response: the call ended in that round with this hand-off as its result
HandoffResultFor(i) ==
    LET tc == last_response.tool_calls[i]
    IN  /\ pc = "returned"
        /\ Len(rounds) = last_response.round
        /\ result.reason = "handoff"
        /\ result.handoff = [to |-> TargetOf(tc.name), instruction |-> tc.instructions]

\* every tool call of the last response has arguments that parse
AllArgumentsParse ==
    \A i \in DOMAIN last_response.tool_calls : last_response.tool_calls[i].json_ok

\* C3 as stated (for responses whose arguments all parse): every hand-off
\* request to an agent of handoffs that an agent without next_agent receives
\* ends the call in that round, with that target and those instructions
C3_AnyValidHandoffIsResult ==
    (next_agent = None /\ AllArgumentsParse) =>
        \A i \in DOMAIN last_response.tool_calls :
            ValidHandoffAt(last_response.tool_calls, i) => HandoffResultFor(i)

\* C3 amended: the first hand-off request of the round that names an agent of
\* handoffs, when no call before it in the list has malformed arguments, ends
\* the call in that round with reason handoff, that target and those
\* instructions
C3_FirstValidHandoffIsResult ==
    next_agent = None =>
        \A i \in DOMAIN last_response.tool_calls :
            (ValidHandoffAt(last_response.tool_calls, i)
                /\ ReachedAt(last_response.tool_calls, i)) => HandoffResultFor(i)

\* C3 witness: in round 2, after a tool call of the same response was
\* executed, a request handoff_to_b ended the call
C3_Witness ==
    /\ next_agent = None
    /\ last_response.round = 2
    /\ Len(last_response.tool_calls) = 2
    /\ ValidHandoffAt(last_response.tool_calls, 2)
    /\ ReachedAt(last_response.tool_calls, 2)
    /\ rounds[2].tool_calls # <<>>
    /\ HandoffResultFor(2)

\* C4 as stated: with multi_turn false every call that returns executed
\* exactly one round, for every max_iterations
C4_SingleTurnExactlyOneRound ==
    (pc = "returned" /\ ~multi_turn) => (Len(rounds) = 1 /\ requests = 1)

\* C4 amended: with multi_turn false a call that returns executed exactly one
\* round when max_iterations is None or at least 1, and no round at all when
\* max_iterations is 0
C4_SingleTurnOneRoundUnlessZero ==
    (pc = "returned" /\ ~multi_turn) =>
        IF max_iterations = 0
        THEN rounds = <<>> /\ requests = 0
        ELSE Len(rounds) = 1 /\ requests = 1

\* C4 witness: a single-turn call without round limit returned after one
\* round in which the model's tool call was executed
C4_Witness ==
    /\ pc = "returned"
    /\ ~multi_turn
    /\ max_iterations = NoLimit
    /\ Len(rounds) = 1
    /\ rounds[1].tool_calls # <<>>

\* C5: with max_iterations = N one attempt issues at most N completion
\* requests and records at most N rounds
C5_RoundLimitBound ==
    max_iterations # NoLimit =>
        (requests <= max_iterations /\ Len(rounds) <= max_iterations)

\* C5 witness: a multi-turn call with max_iterations = 2 stopped after two
\* requests although the second response asked for another tool call
C5_Witness ==
    /\ pc = "returned"
    /\ multi_turn
    /\ max_iterations = 2
    /\ requests = 2
    /\ Len(rounds) = 2
    /\ rounds[2].tool_calls # <<>>

\* the last response carried a hand-off request that the for loop resolved
ResolvedHandoff ==
    \E i \in DOMAIN last_response.tool_calls :
        ValidHandoffAt(last_response.tool_calls, i) /\ ReachedAt(last_response.tool_calls, i)

\* the last response carried a work_done call that the for loop got to
WorkDoneSignalled ==
    \E i \in DOMAIN last_response.tool_calls :
        last_response.tool_calls[i].name = "work_done" /\ ReachedAt(last_response.tool_calls, i)

\* the call returned after executing its max_iterations-th round
ReturnedAtLimit ==
    /\ pc = "returned"
    /\ max_iterations # NoLimit
    /\ max_iterations >= 1
    /\ Len(rounds) = max_iterations

\* C6 as stated: a call that executes its N-th round ends with reason
\* round_limit on that round and on the result
C6_LimitRoundIsRoundLimit ==
    ReturnedAtLimit =>
        (rounds[Len(rounds)].reason = "round_limit" /\ result.reason = "round_limit")

\* C6 amended: the N-th round and the result carry reason round_limit unless
\* that round resolved a hand-off request (handoff) or carried work_done
\* (work_done), or the agent has next_agent (handoff); a N-th round without
\* tool calls is round_limit, not completed
C6_LimitRoundReason ==
    ReturnedAtLimit =>
        LET expected == IF ResolvedHandoff THEN "handoff"
                        ELSE IF WorkDoneSignalled THEN "work_done"
                        ELSE IF next_agent # None THEN "handoff"
                        ELSE "round_limit"
        IN  rounds[Len(rounds)].reason = expected /\ result.reason = expected

\* C6 witness: the second of two allowed rounds had no tool call at all and
\* the result says round_limit
C6_Witness ==
    /\ ReturnedAtLimit
    /\ max_iterations = 2
    /\ last_response.tool_calls = <<>>
    /\ next_agent = None
    /\ result.reason = "round_limit"
    /\ rounds[2].reason = "round_limit"

RECURSIVE SumSeq(_)
\* the sum of a sequence of numbers
SumSeq(q) == IF q = <<>> THEN 0 ELSE q[1] + SumSeq(Tail(q))

RECURSIVE SumHistoryTokens(_)
\* the total_tokens of the results in a history, summed
SumHistoryTokens(h) ==
    IF h = <<>> THEN 0 ELSE h[1].data.usage.total_tokens + SumHistoryTokens(Tail(h))

RECURSIVE SumRoundTokens(_)
\* the total_tokens of the round records, summed
SumRoundTokens(rs) ==
    IF rs = <<>> THEN 0 ELSE rs[1].token_usage.total_tokens + SumRoundTokens(Tail(rs))

\* C7: once the call has returned, the token usage of the rounds reported in
\* the results equals the total accumulated in the context, whatever provider
\* failures and retries occurred
C7_UsageAccounting ==
    pc = "returned" =>
        /\ SumHistoryTokens(history) = token_usage.total_tokens
        /\ SumRoundTokens(rounds) = token_usage.total_tokens

\* C8: a call that returns after failed attempts adds exactly one history
\* entry, its result, and self.rounds and result.usage hold the responses of
\* the successful attempt only
C8_RetrySuccess ==
    (pc = "returned" /\ attempt > 1) =>
        /\ Len(history) = history_at_call + 1
        /\ history[Len(history)] = [step |-> SelfName, data |-> result]
        /\ Len(rounds) = Len(received)
        /\ \A i \in DOMAIN rounds : rounds[i].token_usage.total_tokens = received[i]
        /\ result.usage.total_tokens = SumSeq(received)

\* C8 witness: the third attempt succeeded after two attempts that had
\* already received responses with usage
C8_Witness ==
    /\ pc = "returned"
    /\ attempt = 3
    /\ result.usage.total_tokens > 0
    /\ token_usage.total_tokens >= result.usage.total_tokens + 6

\* C9: at most RetryLimit attempts are made; when the last one fails too the
\* call raises, returns no result and adds no history entry
C9_RetryExhaustion ==
    /\ attempt <= RetryLimit
    /\ (pc = "raised" /\ error = "ProviderError") =>
           /\ attempt = RetryLimit
           /\ result = NoResult
           /\ Len(history) = history_at_call

\* C9 witness: the call raised after RetryLimit attempts, some of which had
\* received responses
C9_Witness ==
    /\ pc = "raised"
    /\ error = "ProviderError"
    /\ attempt = RetryLimit
    /\ token_usage.total_tokens > 0

\* the i-th tool call of the last response is a regular tool call that was
\* executed and whose result reports failure
FailedToolAt(i) ==
    LET tc == last_response.tool_calls[i]
    IN  /\ ~IsHandoffName(tc.name)
        /\ tc.name # "work_done"
        /\ tc.json_ok
        /\ tc.tool_result = "fail"
        /\ ReachedAt(last_response.tool_calls, i)

\* the round limit is not reached by the round of the last response
BelowRoundLimit == max_iterations = NoLimit \/ last_response.round < max_iterations

\* what C10 promises for the failed tool call at position i: its result is in
\* the round record, its assistant and tool turns are in the transcript, and
\* the same attempt is about to issue the next round's request
FailureFedBack(i) ==
    LET id == ToolCallId(last_response.round, i)
    IN  /\ pc = "loop"
        /\ round_number = last_response.round
        /\ Len(rounds) = last_response.round
        /\ \E n \in DOMAIN messages :
               /\ n > 1
               /\ messages[n] = ToolTurn(id, "fail")
               /\ messages[n - 1].role = "assistant"
               /\ messages[n - 1].tool_call_id = id
        /\ \E n \in DOMAIN rounds[Len(rounds)].tool_calls :
               rounds[Len(rounds)].tool_calls[n].result = "fail"
        /\ Len(SelectSeq(dispatched, LAMBDA d : d = id)) = 1

WorkDoneRequested ==
    \E i \in DOMAIN last_response.tool_calls :
        last_response.tool_calls[i].name = "work_done"

C11_HandoffShortCircuit ==
    ResolvedHandoff =>
        /\ \A k \in DOMAIN dispatched : dispatched[k][3] # last_response.round
        /\ pc = "returned"
        /\ Len(rounds) = last_response.round
        /\ rounds[Len(rounds)].reason = "handoff"
        /\ result.reason = "handoff"

\* the reason the last round had when the loop was left, before the forced
\* hand-off: the round carried the work_done signal and no resolved hand-off
EndedWithWorkDone == WorkDoneSignalled /\ ~ResolvedHandoff

\* C12: with next_agent, a call whose final round ended with work_done
\* returns reason work_done and handoff.to = next_agent; with every other
\* final reason it returns reason handoff
C12_WorkDoneForcedSuccessor ==
    (pc = "returned" /\ next_agent # None) =>
        /\ result.handoff.to = next_agent
        /\ rounds[Len(rounds)].handoff = next_agent
        /\ IF EndedWithWorkDone
           THEN result.reason = "work_done" /\ rounds[Len(rounds)].reason = "work_done"
           ELSE result.reason = "handoff" /\ rounds[Len(rounds)].reason = "handoff"

\* C12 witness: the final round carried work_done, the agent has next_agent c,
\* and the result says work_done and hands off to c
C12_Witness ==
    /\ pc = "returned"
    /\ next_agent = "c"
    /\ EndedWithWorkDone
    /\ result.reason = "work_done"
    /\ result.handoff.to = "c"

\* the last round record has a reason and no earlier one has
OnlyLastRoundHasReason ==
    /\ Len(rounds) >= 1
    /\ rounds[Len(rounds)].reason # None
    /\ \A i \in 1..(Len(rounds) - 1) : rounds[i].reason = None

\* C13 as stated: after any process call that returns, exactly one round
\* record has a reason, it is the last one, and every earlier one has none
C13_RoundReasonInvariant ==
    pc = "returned" => OnlyLastRoundHasReason

\* C13 amended: the same, unless max_iterations = 0, where the call returns
\* with no round record at all
C13_RoundReasonUnlessZero ==
    pc = "returned" =>
        IF max_iterations = 0 THEN rounds = <<>> ELSE OnlyLastRoundHasReason

\* C13 witness: a call returned after two rounds, the first without a reason
C13_Witness ==
    /\ pc = "returned"
    /\ Len(rounds) = 2
    /\ rounds[1].reason = None
    /\ rounds[1].tool_calls # <<>>
    /\ rounds[2].reason = "completed"

(***************************************************************************)
(* Several process calls on one agent, one after another, with either      *)
(* value of clear_memory.                                                  *)
(***************************************************************************)
\* process calls the caller makes on the agent
MaxCalls == 2

\* the input_text of the n-th process call
CallInput(n) == IF n = 1 THEN "hello" ELSE "more"

\* the max_iterations arguments of these calls
CallLimits == {NoLimit, 1}

\* a write_file call that succeeds
WriteFileCall ==
    [name |-> "write_file", json_ok |-> TRUE, instructions |-> None, tool_result |-> "ok"]

\* the hand-off request to agent n
HandoffCall(n) ==
    [name |-> HandoffToolName(n), json_ok |-> TRUE, instructions |-> InstructionsFor(n),
     tool_result |-> None]

\* what the client returns in these calls: the final text without tool
\* calls, or a message with a tool call, a tool call followed by a hand-off
\* request, or the work_done signal
CallResponses ==
    { [content |-> "done", usage |-> NoUsage, tool_calls |-> <<>>],
      [content |-> "hi", usage |-> SomeUsage, tool_calls |-> <<WriteFileCall>>],
      [content |-> "hi", usage |-> SomeUsage, tool_calls |-> <<WriteFileCall, HandoffCall("b")>>],
      [content |-> "hi", usage |-> SomeUsage,
       tool_calls |-> <<[name |-> "work_done", json_ok |-> TRUE, instructions |-> None,
                         tool_result |-> None]>>] }

InitCalls == Init /\ handoffs = <<"b">>

\* the first process call on the agent
FirstCall ==
    /\ pc = "idle"
    /\ \E mi \in CallLimits, cm \in BOOLEAN :
        ProcessCall(self_name, memory, CallInput(1), mi, cm)
    /\ UNCHANGED <<multi_turn, handoffs, next_agent, history, token_usage,
                   cost, self_name, runVars, ctxVars, thrVars, winVars>>

\* a further process call on the same agent with the same context, after the
\* one before it returned
CallAgain ==
    /\ pc = "returned"
    /\ ncalls < MaxCalls
    /\ \E mi \in CallLimits, cm \in BOOLEAN :
        ProcessCall(self_name, memory, CallInput(ncalls + 1), mi, cm)
    /\ UNCHANGED <<multi_turn, handoffs, next_agent, history, token_usage,
                   cost, self_name, runVars, ctxVars, thrVars, winVars>>

CallsRound == RoundOn(CallResponses)

NextCalls == FirstCall \/ CallAgain \/ CallsRound

SpecCalls == InitCalls /\ [][NextCalls]_vars

\* the k-th entry of history is the entry of the k-th process call
HistoryInInvocationOrder ==
    /\ Len(history) <= Len(invoked)
    /\ \A k \in DOMAIN history :
           /\ history[k].step = invoked[k].agent
           /\ history[k].data.input = invoked[k].input

\* C14: every step leaves the entries of history as they are; the step in
\* which a process call returns appends one entry (the agent's name and the
\* result), no other step appends one, and the entries are in the order of
\* the invocations
C14_HistoryAppendOnly ==
    [][/\ Len(history') >= Len(history)
       /\ SubSeq(history', 1, Len(history)) = history
       /\ IF pc' = "returned" /\ pc # "returned"
          THEN history' = Append(history, [step |-> self_name, data |-> result'])
          ELSE history' = history
       /\ HistoryInInvocationOrder']_vars

\* C14 witness: two calls have returned and history holds their two entries
C14_Witness ==
    /\ pc = "returned"
    /\ ncalls = 2
    /\ Len(history) = 2
    /\ history[1].data.input = "hello"
    /\ history[2].data.input = "more"
    /\ history[2].data = result

\* C15: in a call with clear_memory = true that follows an earlier call on
\* the same agent, the transcript starts with the system turn and the new
\* user turn, and every other turn of the transcript and of the memory was
\* produced by this call
C15_ClearMemoryIsolation ==
    (ncalls >= 2 /\ clear_memory) =>
        /\ Len(messages) >= 2
        /\ messages[1] = SystemTurn
        /\ messages[2] = UserTurn(input_text)
        /\ \A k \in 3..Len(messages) :
               /\ messages[k].role \in {"assistant", "tool"}
               /\ messages[k].tool_call_id[1] = ncalls
        /\ \A k \in DOMAIN memory :
               /\ memory[k].role \in {"assistant", "tool"}
               /\ memory[k].tool_call_id[1] = ncalls

\* C15 witness: both calls had clear_memory = true; the first executed a
\* tool call before it handed off to b (the only response with a hand-off
\* request lists write_file first), and the second has executed one too
C15_Witness ==
    /\ ncalls = 2
    /\ invoked[1].clear /\ invoked[2].clear
    /\ next_agent = None
    /\ history[1].data.handoff.to = "b"
    /\ Len(messages) = 4
    /\ messages[4] = ToolTurn(<<2, 1, 1, 1>>, "ok")

\* C16: for an agent without next_agent called without a round limit, a round
\* in which the model returns text T and no tool call ends the loop, and
\* process returns output T, reason completed and no hand-off
C16_NaturalCompletion ==
    (next_agent = None /\ max_iterations = NoLimit
        /\ last_response.round > 0 /\ last_response.tool_calls = <<>>) =>
        /\ pc = "returned"
        /\ Len(rounds) = last_response.round
        /\ result.output = last_response.content
        /\ result.reason = "completed"
        /\ result.handoff = NoHandoff
        /\ rounds[Len(rounds)].reason = "completed"

\* C16 witness: the first round executed a tool call and returned the text
\* hi, the second returned the text done and no tool call
C16_Witness ==
    /\ pc = "returned"
    /\ next_agent = None
    /\ max_iterations = NoLimit
    /\ Len(rounds) = 2
    /\ rounds[1].output = "hi"
    /\ last_response.tool_calls = <<>>
    /\ result.output = "done"
    /\ result.reason = "completed"

(***************************************************************************)
(* Context objects.  document, history and used_tools are attributes of    *)
(* the class Context (context.py, lines 18-23); __init__ assigns none of   *)
(* them, so self.document, self.history and self.used_tools of every       *)
(* Context object are the objects held by the class.                       *)
(***************************************************************************)
\* Context objects created
MaxContexts == 2
\* entries appended to each of Context.history and Context.used_tools
MaxEntries == 2

\* keys passed to set_document
DocumentKeys == {"prd", "code"}

\* self.document, self.history and self.used_tools as the Context object c
\* reads them: no instance attribute hides the class attribute
DocumentOf(c) == document

HistoryOf(c) == history

UsedToolsOf(c) == used_tools

\* the variables of the agent and of its process call, but for history
callVars == <<multi_turn, handoffs, next_agent, rounds, memory, token_usage,
              cost, memory_at_call, exposed, input_text, max_iterations, clear_memory, messages,
              current_round, total_token_usage, final_output, final_reason,
              handoff_target, handoff_instructions, round_number, pc,
              attempt, result, error, ncalls, last_response, requests,
              received, received_calls, dispatched, history_at_call, self_name, invoked>>

InitContexts == Init /\ ~multi_turn /\ handoffs = <<"b">> /\ next_agent = None

\* Context(raw_demand): __init__ sets root_dir, raw_demand, time, token_usage
\* and cost on the new object
NewContext ==
    /\ Len(instances) < MaxContexts
    /\ instances' = Append(instances, [raw_demand |-> "demand", root_dir |-> None])
    /\ added_via' = Append(added_via, [document |-> {}, history |-> <<>>, used_tools |-> <<>>])
    /\ UNCHANGED <<document, used_tools, history>>
    /\ UNCHANGED <<callVars, runVars, thrVars, winVars>>

\* c.set_document(key, value)
SetDocument ==
    /\ \E c \in DOMAIN instances, key \in DocumentKeys :
        /\ document' = [k \in DOMAIN DocumentOf(c) \cup {key} |->
                           IF k = key THEN "text" ELSE DocumentOf(c)[k]]
        /\ added_via' = [added_via EXCEPT ![c].document = @ \cup {key}]
    /\ UNCHANGED <<instances, used_tools, history>>
    /\ UNCHANGED <<callVars, runVars, thrVars, winVars>>

\* c.add_history(step, data)
ContextAddHistory ==
    /\ Len(history) < MaxEntries
    /\ \E c \in DOMAIN instances :
        /\ history' = AddHistory(HistoryOf(c), SelfName, NoResult)
        /\ added_via' = [added_via EXCEPT
                            ![c].history = AddHistory(@, SelfName, NoResult)]
    /\ UNCHANGED <<instances, document, used_tools>>
    /\ UNCHANGED <<callVars, runVars, thrVars, winVars>>

\* c.add_used_tool(tool_name, params, result)
AddUsedTool ==
    /\ Len(used_tools) < MaxEntries
    /\ \E c \in DOMAIN instances, r \in ToolResults :
        LET entry == [tool_name |-> "write_file", params |-> "path", result |-> r]
        IN  /\ used_tools' = Append(UsedToolsOf(c), entry)
            /\ added_via' = [added_via EXCEPT ![c].used_tools = Append(@, entry)]
    /\ UNCHANGED <<instances, document, history>>
    /\ UNCHANGED <<callVars, runVars, thrVars, winVars>>

NextContexts == NewContext \/ SetDocument \/ ContextAddHistory \/ AddUsedTool

SpecContexts == InitContexts /\ [][NextContexts]_vars

\* C17: what a Context object shows as its documents, history and used tools
\* is what was added through that object, nothing at its creation and never
\* an entry added through another Context object
C17_ContextIsolation ==
    \A c \in DOMAIN instances :
        /\ DOMAIN DocumentOf(c) = added_via[c].document
        /\ HistoryOf(c) = added_via[c].history
        /\ UsedToolsOf(c) = added_via[c].used_tools

(***************************************************************************)
(* Two threads run process on the same Agent object, each with a Context   *)
(* of its own and clear_memory = True.  self.rounds and self.memory are    *)
(* fields of the Agent object (agent.py, lines 66 and 69); everything else *)
(* a call works on is local to it.  A thread can be preempted anywhere;    *)
(* the steps here are the start of _process_with_retry (lines 203-251),    *)
(* one iteration of the while loop, and the code after the loop.           *)
(***************************************************************************)
\* what the client returns to a thread: the final text, or one tool call
ThreadResponses ==
    { [content |-> "done", usage |-> NoUsage, tool_calls |-> <<>>],
      [content |-> "hi", usage |-> SomeUsage, tool_calls |-> <<WriteFileCall>>] }

\* the variables no thread step changes
threadFrame ==
    <<history, token_usage, cost, memory_at_call, exposed, input_text,
      max_iterations, clear_memory, messages,
      current_round, total_token_usage, final_output, final_reason,
      handoff_target, handoff_instructions, round_number, pc, attempt, result,
      error, ncalls, last_response, requests, received, received_calls, dispatched,
      history_at_call, self_name, invoked, runVars, ctxVars, winVars>>

InitThreads == Init /\ handoffs = <<"b">>

\* n copies of x
Copies(n, x) == [i \in 1..n |-> x]

\* lines 203-251 in thread t
ThreadStart(t) ==
    /\ threads[t].pc = "idle"
    /\ threads' = [threads EXCEPT
                      ![t].pc = "loop",
                      ![t].input_text = CallInput(t),
                      ![t].messages = PreparedMessages(memory, CallInput(t), TRUE),
                      ![t].current_round = NewRound(CallInput(t))]
    /\ memory' = PreparedMemory(memory, CallInput(t), TRUE)
    /\ memory_owner' = <<>>
    /\ rounds' = FreshRounds(rounds)
    /\ rounds_owner' = <<>>
    /\ UNCHANGED <<multi_turn, handoffs, next_agent, threadFrame>>

\* the state of the for loop of thread t before its first iteration
ThreadLoopStart(th, cr) ==
    [handoff_requested |-> FALSE, work_done_called |-> FALSE,
     current_round_tool_calls |-> <<>>, tool_result |-> None,
     messages |-> th.messages, memory |-> memory, current_round |-> cr,
     final_reason |-> th.final_reason, handoff_target |-> th.handoff_target,
     handoff_instructions |-> th.handoff_instructions,
     dispatched |-> <<>>, raised |-> FALSE]

\* one iteration of the while loop in thread t (lines 255-454)
ThreadRound(t) ==
    /\ threads[t].pc = "loop"
    /\ threads[t].round_number < MaxRounds
    /\ \E response \in ThreadResponses :
        LET th == threads[t]
            rn == th.round_number + 1
            u == response.usage
            cr1 == [th.current_round EXCEPT
                        !.output = response.content,
                        !.has_usage = u.present,
                        !.token_usage = IF u.present THEN RoundUsage(u) ELSE @]
            ls0 == ThreadLoopStart(th, cr1)
            ls == IF response.tool_calls = <<>> THEN ls0
                  ELSE HandleToolCall(ls0, handoffs, response.tool_calls[1],
                                      response.content, <<t, 1, rn, 1>>)
            after == AfterToolCalls(ls, NoLimit, rn, multi_turn)
        IN  /\ memory' = ls.memory
            /\ memory_owner' = memory_owner \o Copies(Len(ls.memory) - Len(memory), t)
            /\ rounds' = Append(rounds, after.round)
            /\ rounds_owner' = Append(rounds_owner, t)
            /\ threads' = [threads EXCEPT
                  ![t].pc = IF after.break THEN "after_loop" ELSE "loop",
                  ![t].messages = ls.messages,
                  ![t].current_round =
                      IF after.break THEN after.round
                      ELSE NewRound(ToolResultsInput(ls.tool_result)),
                  ![t].round_number = rn,
                  ![t].final_output = response.content,
                  ![t].final_reason = after.final_reason,
                  ![t].handoff_target = ls.handoff_target,
                  ![t].handoff_instructions = ls.handoff_instructions]
    /\ UNCHANGED <<multi_turn, handoffs, next_agent, threadFrame>>

\* lines 456-485 in thread t
ThreadFinish(t) ==
    /\ threads[t].pc = "after_loop"
    /\ LET th == threads[t]
       IN  IF next_agent # None /\ rounds = <<>>
           THEN \* self.rounds[-1] raises IndexError
                /\ threads' = [threads EXCEPT ![t].pc = "raised"]
                /\ UNCHANGED rounds
           ELSE /\ rounds' = ForcedRounds(rounds, next_agent)
                /\ threads' = [threads EXCEPT
                      ![t].pc = "returned",
                      ![t].final_reason = ForcedReason(rounds, next_agent, th.final_reason),
                      ![t].handoff_target = ForcedTarget(next_agent, th.handoff_target),
                      ![t].result =
                          MakeResult(th.input_text, th.final_output,
                                     th.current_round.token_usage,
                                     ForcedReason(rounds, next_agent, th.final_reason),
                                     ForcedTarget(next_agent, th.handoff_target),
                                     th.handoff_instructions)]
    /\ UNCHANGED <<multi_turn, handoffs, next_agent, memory, memory_owner,
                   rounds_owner, threadFrame>>

NextThreads ==
    \E t \in 1..MaxThreads : ThreadStart(t) \/ ThreadRound(t) \/ ThreadFinish(t)

SpecThreads == InitThreads /\ [][NextThreads]_vars

\* C18: while a process invocation is in progress, every entry of self.rounds
\* and of self.memory was written by that invocation: the other invocation
\* neither reads nor writes the memory and the round records it uses
C18_PerCallIsolation ==
    \A t \in 1..MaxThreads :
        threads[t].pc \in {"loop", "after_loop"} =>
            /\ \A i \in DOMAIN rounds_owner : rounds_owner[i] = t
            /\ \A i \in DOMAIN memory_owner : memory_owner[i] = t
            /\ Len(rounds) = threads[t].round_number

(***************************************************************************)
(* The pipeline run of waterfall.dev: Runner().run(demand_analyst, demand, *)
(* 5) over the agents of waterfall.py.  The Runner class is not part of    *)
(* the sources at hand; its loop is modelled as the specification          *)
(* describes it (section 4.3): invoke the current agent, follow the        *)
(* hand-off of its result with the attached instructions as the next       *)
(* input, stop when there is none or when the hop budget is used up.       *)
(***************************************************************************)
\* the hop budget dev passes to Runner.run
MaxHops == 5

\* the agents as waterfall.py constructs them; tools says whether the agent
\* offers the model any tool (its own tools or a hand-off tool)
AgentTable(n) ==
    CASE n = "quality_assurance" ->
            [handoffs |-> <<>>, next_agent |-> "programmer", multi_turn |-> FALSE,
             tools |-> FALSE]
      [] n = "programmer" ->
            [handoffs |-> <<"quality_assurance">>, next_agent |-> None,
             multi_turn |-> FALSE, tools |-> TRUE]
      [] n = "architect" ->
            [handoffs |-> <<>>, next_agent |-> "programmer", multi_turn |-> FALSE,
             tools |-> FALSE]
      [] n = "demand_analyst" ->
            [handoffs |-> <<>>, next_agent |-> "architect", multi_turn |-> FALSE,
             tools |-> FALSE]

\* the entry agent and the input dev passes to Runner.run
EntryAgent == "demand_analyst"

Demand == "demand"

\* what the client returns to the agent n: tool calls only when the request
\* offered tools (tools = None otherwise, agent.py line 266)
RunResponses(n) ==
    IF AgentTable(n).tools
    THEN { [content |-> "done", usage |-> NoUsage, tool_calls |-> <<>>],
           [content |-> "hi", usage |-> SomeUsage, tool_calls |-> <<WriteFileCall>>],
           [content |-> "hi", usage |-> SomeUsage,
            tool_calls |-> <<WriteFileCall, HandoffCall("quality_assurance")>>],
           [content |-> "hi", usage |-> SomeUsage,
            tool_calls |-> <<HandoffCall("quality_assurance")>>],
           [content |-> "hi", usage |-> SomeUsage,
            tool_calls |-> <<HandoffCall("architect")>>] }
    ELSE { [content |-> "done", usage |-> NoUsage, tool_calls |-> <<>>],
           [content |-> "done", usage |-> SomeUsage, tool_calls |-> <<>>] }

InitRun ==
    /\ self_name = EntryAgent
    /\ multi_turn = AgentTable(EntryAgent).multi_turn
    /\ handoffs = AgentTable(EntryAgent).handoffs
    /\ next_agent = AgentTable(EntryAgent).next_agent
    /\ InitCall
    /\ agents = [n \in WaterfallAgents |-> [rounds |-> <<>>, memory |-> <<>>]]
    /\ hops = 0
    /\ run_state = "off"
    /\ trace = NoTrace
    /\ NoContexts
    /\ NoThreads
    /\ NoWindows

\* faulty variant: the loop goes on whatever the number of hops
HopsLeftAlways(h) == TRUE

\* the Runner's loop condition on the hop budget
HopsLeft(h) == h < MaxHops

\* the agent the Runner invokes after a result with a hand-off
NextAgentOf(res) == res.handoff.to

\* faulty variant: the next agent is given the input of the one before
NextInputUnchanged(res) == res.input

\* the input the Runner gives to the next agent
NextInputOf(res) == res.handoff.instruction

\* the Runner calls agent.process(context, text) on the agent named agent:
\* the variables of the call now follow that Agent object
RunInvoke(agent, text) ==
    /\ self_name' = agent
    /\ multi_turn' = AgentTable(agent).multi_turn
    /\ handoffs' = AgentTable(agent).handoffs
    /\ next_agent' = AgentTable(agent).next_agent
    /\ agents' = [agents EXCEPT ![self_name] = [rounds |-> rounds, memory |-> memory]]
    /\ ProcessCall(agent, IF agent = self_name THEN memory ELSE agents[agent].memory,
                   text, NoLimit, TRUE)
    /\ hops' = hops + 1
    /\ UNCHANGED <<history, token_usage, cost, trace, ctxVars, thrVars, winVars>>

\* Runner.run(demand_analyst, demand, 5) starts with the entry agent
RunStart ==
    /\ run_state = "off"
    /\ pc = "idle"
    /\ HopsLeft(hops)
    /\ run_state' = "running"
    /\ RunInvoke(EntryAgent, Demand)

\* the result carries a hand-off and the budget is not used up
RunHop ==
    /\ run_state = "running"
    /\ pc = "returned"
    /\ result.handoff # NoHandoff
    /\ HopsLeft(hops)
    /\ UNCHANGED run_state
    /\ RunInvoke(NextAgentOf(result), NextInputOf(result))

\* no hand-off, or the budget is used up: run returns
RunStop ==
    /\ run_state = "running"
    /\ pc = "returned"
    /\ result.handoff = NoHandoff \/ ~HopsLeft(hops)
    /\ run_state' = "stopped"
    /\ UNCHANGED <<callVars, history, agents, hops, trace, ctxVars, thrVars, winVars>>

\* trace.txt once dev has written it: the dump of the context that run
\* returned, of which the history is kept here
TraceOf(h) == [written |-> TRUE, history |-> h]

\* run has returned: dev writes trace.txt and returns
WriteTrace ==
    /\ run_state = "stopped"
    /\ ~trace.written
    /\ trace' = TraceOf(history)
    /\ UNCHANGED <<callVars, history, agents, hops, run_state, ctxVars, thrVars, winVars>>

\* process raised: the exception leaves run and then dev, whose try
\* statement has a finally clause (it restores the working directory) and
\* no except clause, so that the lines after the call of run are skipped
RunAbort ==
    /\ run_state = "running"
    /\ pc = "raised"
    /\ run_state' = "aborted"
    /\ UNCHANGED <<callVars, history, agents, hops, trace, ctxVars, thrVars, winVars>>

RunRound == RoundOn(RunResponses(self_name))

NextRun ==
    RunStart \/ RunHop \/ RunStop \/ WriteTrace \/ RunAbort \/ RunRound \/ ProviderFailure

SpecRun == InitRun /\ [][NextRun]_vars

\* C19: an invocation that follows another one starts after that one
\* returned with a hand-off, and is the invocation of result.handoff.to with
\* result.handoff.instruction as its input; no invocation starts while one is
\* in progress; after a result without hand-off the run stops
C19_RunnerTraversal ==
    [][/\ (ncalls' # ncalls) => pc \in {"idle", "returned"}
       /\ (ncalls' # ncalls /\ ncalls > 0) =>
              /\ pc = "returned"
              /\ result.handoff # NoHandoff
              /\ self_name' = result.handoff.to
              /\ input_text' = result.handoff.instruction
              /\ invoked'[Len(invoked')].agent = result.handoff.to
              /\ invoked'[Len(invoked')].input = result.handoff.instruction
       /\ (pc = "returned" /\ result.handoff = NoHandoff) =>
              (ncalls' = ncalls /\ run_state' = "stopped")]_vars

\* C19 witness: programmer asked for a hand-off to quality_assurance with
\* instructions, and quality_assurance is being invoked with them
C19_Witness ==
    /\ run_state = "running"
    /\ ncalls = 4
    /\ pc = "loop"
    /\ self_name = "quality_assurance"
    /\ input_text = InstructionsFor("quality_assurance")
    /\ history[3].step = "programmer"
    /\ history[3].data.handoff =
           [to |-> "quality_assurance", instruction |-> InstructionsFor("quality_assurance")]

\* C20: a run with hop budget MaxHops invokes at most MaxHops agents; once
\* that many invocations have returned, no further one can start and the run
\* stops, also when the last result carries a hand-off
C20_HopBudget ==
    /\ hops <= MaxHops
    /\ ncalls = hops
    /\ Len(invoked) = hops
    /\ (run_state = "running" /\ pc = "returned" /\ hops >= MaxHops) =>
           (~ENABLED RunHop /\ ENABLED RunStop)
    /\ run_state = "stopped" => pc = "returned"

\* C20 witness: the run went round the cycle programmer, quality_assurance,
\* programmer, and stopped after MaxHops invocations although the last result
\* hands off to quality_assurance again
C20_Witness ==
    /\ run_state = "stopped"
    /\ hops = MaxHops
    /\ invoked[3].agent = "programmer"
    /\ invoked[4].agent = "quality_assurance"
    /\ invoked[5].agent = "programmer"
    /\ result.handoff.to = "quality_assurance"

(***************************************************************************)
(* The persisted trace of a run (waterfall.py, dev).                       *)
(***************************************************************************)
\* C21: when an agent invocation fails and the pipeline run aborts, the
\* persisted run trace has been produced and holds every history entry
\* accumulated before the failure
C21_TraceOnAbort ==
    run_state = "aborted" => trace.written /\ trace.history = history

\* the trace is written only after run returned, and with the whole history
TraceAfterNormalEnd ==
    trace.written => run_state = "stopped" /\ trace.history = history /\ history # <<>>

(***************************************************************************)
(* The accumulators of the context over a pipeline run.                    *)
(***************************************************************************)
\* no total of the first usage record is above its total in the second
UsageNotBelow(old, new) ==
    /\ new.prompt_tokens >= old.prompt_tokens
    /\ new.completion_tokens >= old.completion_tokens
    /\ new.total_tokens >= old.total_tokens
    /\ \A k \in DOMAIN old.by_round :
          k \in DOMAIN new.by_round /\ new.by_round[k] >= old.by_round[k]

CostNotBelow(old, new) ==
    /\ new.prompt_cost >= old.prompt_cost
    /\ new.completion_cost >= old.completion_cost
    /\ new.total_cost >= old.total_cost
    /\ \A k \in DOMAIN old.by_round :
          k \in DOMAIN new.by_round /\ new.by_round[k] >= old.by_round[k]

\* the total recorded under key k, 0 when there is none
RecordedUnder(by_round, k) == IF k \in DOMAIN by_round THEN by_round[k] ELSE 0

\* C22: over every step of a run (agent invocations, rounds, retries) no
\* token-usage or cost total of the context decreases, and a round whose
\* response reports usage adds its prompt and completion counts to the
\* totals and to the entry of (agent name, round number), the model being
\* fixed by the agent
C22_MonotoneAccumulators ==
    [][ /\ UsageNotBelow(token_usage, token_usage')
        /\ CostNotBelow(cost, cost')
        /\ (requests' = requests + 1 /\ last_response'.usage.present) =>
              /\ token_usage'.prompt_tokens =
                    token_usage.prompt_tokens + last_response'.usage.prompt_tokens
              /\ token_usage'.completion_tokens =
                    token_usage.completion_tokens + last_response'.usage.completion_tokens
              /\ token_usage'.total_tokens =
                    token_usage.total_tokens + last_response'.usage.prompt_tokens
                       + last_response'.usage.completion_tokens
              /\ RecordedUnder(token_usage'.by_round, <<self_name, last_response'.round>>) =
                    RecordedUnder(token_usage.by_round, <<self_name, last_response'.round>>)
                       + last_response'.usage.prompt_tokens
                       + last_response'.usage.completion_tokens
              /\ cost'.total_cost > cost.total_cost ]_vars

\* usage of two agents has been recorded, one of them invoked twice, after
\* a retry
C22_Witness ==
    /\ Cardinality(DOMAIN token_usage.by_round) >= 2
    /\ \E k \in DOMAIN token_usage.by_round :
          token_usage.by_round[k] > SomeUsage.prompt_tokens + SomeUsage.completion_tokens
    /\ cost.total_cost > 0
    /\ attempt > 1

(***************************************************************************)
(* The length of the conversation loop.                                    *)
(***************************************************************************)
\* the call in progress is about to issue a further completion request
AboutToRequest == pc = "loop" /\ WhileCond(max_iterations, round_number)

\* C23 (as stated): every process call finishes after a number of rounds
\* that is fixed in advance, for every configuration; whatever that number
\* is, here MaxRounds, no call is about to issue a further completion
\* request once it has completed that many rounds
C23_BoundedLoop == AboutToRequest => round_number < MaxRounds

\* the number of rounds the configuration of the call allows: max_iterations
\* when it is set, and one round at most when the agent is single-turn
RoundBound ==
    IF max_iterations = NoLimit THEN 1
    ELSE IF multi_turn \/ max_iterations = 0 THEN max_iterations ELSE 1

\* C23 (amended): a call with max_iterations set, or on a single-turn agent,
\* never completes more rounds than its configuration allows and issues a
\* further completion request only below that number
C23_BoundedWhenLimited ==
    (max_iterations # NoLimit \/ ~multi_turn) =>
        /\ round_number <= RoundBound
        /\ AboutToRequest => round_number < RoundBound

\* a multi-turn call with max_iterations = MaxIterArg has returned after
\* that many rounds, each of which dispatched a tool call
C23_Witness ==
    /\ pc = "returned"
    /\ multi_turn
    /\ max_iterations = MaxIterArg
    /\ round_number = MaxIterArg
    /\ Len(dispatched) >= MaxIterArg

\* the last response carried a regular tool call that was dispatched
RegularDispatched ==
    \E i \in DOMAIN last_response.tool_calls :
        /\ ~IsHandoffName(last_response.tool_calls[i].name)
        /\ last_response.tool_calls[i].name # "work_done"
        /\ last_response.tool_calls[i].json_ok
        /\ ReachedAt(last_response.tool_calls, i)

\* C24: after a round r that ended without an exception the loop goes on to
\* round r + 1 if and only if multi_turn is true, a regular tool call was
\* dispatched in round r, round r had no resolved hand-off and no work_done,
\* and r is below max_iterations when that is set; otherwise the call
\* returns with round r as its last round
C24_LoopContinuation ==
    (last_response.round > 0 /\ pc \in {"loop", "returned"}) =>
        /\ round_number = last_response.round
        /\ Len(rounds) = last_response.round
        /\ pc = "loop" <=>
              /\ multi_turn
              /\ RegularDispatched
              /\ ~ResolvedHandoff
              /\ ~WorkDoneSignalled
              /\ BelowRoundLimit

\* the loop goes on after a round that carried an ignored hand-off request
\* next to a dispatched tool call
C24_Witness ==
    /\ pc = "loop"
    /\ last_response.round > 0
    /\ RegularDispatched
    /\ HandoffRequested

(***************************************************************************)
(* Hand-off requests that name no agent of handoffs.                       *)
(***************************************************************************)
\* the instructions of the hand-off request the last response's for loop
\* resolved, "" when it resolved none: what result.handoff.instruction is
\* when the requests to agents outside handoffs are left out
InstructionOfResolved ==
    IF ResolvedHandoff
    THEN LET i == CHOOSE j \in DOMAIN last_response.tool_calls :
                     /\ ValidHandoffAt(last_response.tool_calls, j)
                     /\ ReachedAt(last_response.tool_calls, j)
         IN  last_response.tool_calls[i].instructions
    ELSE ""

\* C25: a hand-off request naming an agent outside handoffs leaves the
\* outcome of the call as it is without the request: no turn of the
\* transcript belongs to a hand-off request, and the instruction of the
\* returned hand-off is the one of the resolved request, or empty when the
\* hand-off is only the forced one
C25_IgnoredHandoffNoOp ==
    (pc = "returned" /\ result.handoff # NoHandoff /\ AllArgumentsParse) =>
        /\ \A i \in DOMAIN messages : ~IsHandoffName(messages[i].tool)
        /\ result.handoff.instruction = InstructionOfResolved

\* the same for an agent without next_agent
IgnoredHandoffNoOpUnforced == next_agent = None => C25_IgnoredHandoffNoOp

(***************************************************************************)
(* The tools a completion request offers.                                  *)
(***************************************************************************)
\* the names of the agent's own tools and of its hand-off tools
OwnAndHandoffTools ==
    {OwnTools(self_name)[i] : i \in DOMAIN OwnTools(self_name)}
        \cup {HandoffToolName(handoffs[i]) : i \in DOMAIN handoffs}

\* C26: every completion request of an agent offers the agent's own tools,
\* one hand-off tool for each agent of handoffs, and the work_done tool,
\* also when the agent has no tools and no handoffs
C26_ToolExposure ==
    requests > 0 => exposed = OwnAndHandoffTools \cup {"work_done"}

\* what the requests do offer: the own tools and the hand-off tools
ExposureWithoutWorkDone == requests > 0 => exposed = OwnAndHandoffTools

(***************************************************************************)
(* The dump of the context.                                                *)
(***************************************************************************)
\* C27: after any sequence of process calls the dump of the context holds
\* only serializable values: no history entry's result refers to an Agent
\* object
C27_DumpSerializable ==
    \A k \in DOMAIN Dump(document, history, used_tools, token_usage, cost).history :
        HandoffToType(Dump(document, history, used_tools, token_usage, cost).history[k].data)
            \in JsonTypes

(***************************************************************************)
(* Process calls with failing attempts, with and without clear_memory.     *)
(***************************************************************************)
\* a call of a regular tool whose arguments do not parse
BadCall ==
    [name |-> "write_file", json_ok |-> FALSE, instructions |-> None, tool_result |-> "ok"]

\* what the client returns: as in CallResponses, or a response whose second
\* tool call makes json.loads raise after the first one was dispatched
RetryResponses ==
    CallResponses
        \cup { [content |-> "hi", usage |-> SomeUsage, tool_calls |-> <<WriteFileCall, BadCall>>] }

RetryRound == RoundOn(RetryResponses)

NextRetry == FirstCall \/ CallAgain \/ RetryRound \/ ProviderFailure

SpecRetry == InitCalls /\ [][NextRetry]_vars

\* the transcript the first attempt of the call started with
FirstTranscript == PreparedMessages(memory_at_call, input_text, clear_memory)

\* an attempt after the first is about to issue its first completion request
RetryStarts == pc = "loop" /\ round_number = 0 /\ attempt > 1

\* C28: every retry attempt of a process call issues its first completion
\* request with the transcript the first attempt started with, for both
\* values of clear_memory
C28_RetrySameInput == RetryStarts => messages = FirstTranscript

\* the same for calls with clear_memory = true
RetrySameInputWhenCleared == (RetryStarts /\ clear_memory) => messages = FirstTranscript

\* an attempt of the call is about to issue the completion request of round 1
RoundOneStarts == pc = "loop" /\ round_number = 0

\* the turns of the transcript between its first and its last
Between(msgs) == SubSeq(msgs, 2, Len(msgs) - 1)

\* C29: the transcript sent in round 1 of a call starts with the system
\* turn and ends with the new user turn, and between them it holds the turns
\* retained from earlier calls, in their order, when clear_memory is false
\* and nothing when it is true
C29_TranscriptConstruction ==
    RoundOneStarts =>
        /\ Len(messages) >= 2
        /\ messages[1] = SystemTurn
        /\ messages[Len(messages)] = UserTurn(input_text)
        /\ Between(messages) = IF clear_memory THEN <<>> ELSE memory_at_call

\* the same for the first attempt of every call
TranscriptOfFirstAttempt == attempt = 1 => C29_TranscriptConstruction

(***************************************************************************)
(* The dispatch of the tool calls of a round.                              *)
(***************************************************************************)
\* the i-th tool call of the list is neither a hand-off request nor work_done
RegularAt(tcs, i) == ~IsHandoffName(tcs[i].name) /\ tcs[i].name # "work_done"

\* the positions of the regular tool calls of the last response, in the
\* order of the response: all of them, or those the for loop gets to
RegularPositions(reached_only) ==
    LET tcs == last_response.tool_calls
        keep(i) == RegularAt(tcs, i) /\ (reached_only => ReachedAt(tcs, i))
    IN  SelectSeq([i \in 1..Len(tcs) |-> i], keep)

\* the ids handed to execute_tool in the round of the last response
DispatchedInRound ==
    LET of_round(id) == id[3] = last_response.round
    IN  SelectSeq(dispatched, of_round)

\* the turns of the tool calls at the positions ps: for each one the
\* assistant tool-call turn followed by its tool-result turn
TurnsOf(ps) ==
    LET tcs == last_response.tool_calls
        id(k) == ToolCallId(last_response.round, ps[k])
    IN  [n \in 1..(2 * Len(ps)) |->
            IF n % 2 = 1
            THEN AssistantTurn(last_response.content, id((n + 1) \div 2),
                               tcs[ps[(n + 1) \div 2]].name)
            ELSE ToolTurn(id(n \div 2), tcs[ps[n \div 2]].tool_result)]

\* the regular tool calls at the positions ps are the ones dispatched in the
\* round, once each and in that order, and their turns are the last turns
\* of the transcript
DispatchedExactly(ps) ==
    /\ DispatchedInRound = [k \in 1..Len(ps) |-> ToolCallId(last_response.round, ps[k])]
    /\ Len(messages) >= 2 * Len(ps)
    /\ SubSeq(messages, Len(messages) - 2 * Len(ps) + 1, Len(messages)) = TurnsOf(ps)

\* a round has ended without an exception
RoundEnded ==
    last_response.round > 0 /\ pc \in {"loop", "returned"} /\ AllArgumentsParse

\* C30 (as stated): every tool call of a round that is neither a hand-off
\* request nor work_done is dispatched exactly once, in the order of the
\* response, and its assistant and tool-result turns are in the transcript
\* before the next completion request
C30_DispatchEvery == RoundEnded => DispatchedExactly(RegularPositions(FALSE))

\* C30 (amended): the same for the regular tool calls listed before the
\* first resolved hand-off request of the response (all of them when there
\* is none)
C30_DispatchUntilHandoff == RoundEnded => DispatchedExactly(RegularPositions(TRUE))

\* the second round of a call has dispatched two tool calls and the loop
\* goes on
C30_Witness ==
    /\ pc = "loop"
    /\ last_response.round = 2
    /\ Len(RegularPositions(TRUE)) = 2
    /\ Len(DispatchedInRound) = 2

(***************************************************************************)
(* The instruction of a forced hand-off.                                   *)
(***************************************************************************)
\* the instructions of the hand-off requests of one response, in the order
\* of the response: all of them, or those the for loop gets to
InstructionsIn(tcs, reached_only) ==
    LET keep(i) == IsHandoffName(tcs[i].name) /\ (reached_only => ReachedAt(tcs, i))
        ps == SelectSeq([i \in 1..Len(tcs) |-> i], keep)
    IN  [k \in 1..Len(ps) |-> tcs[ps[k]].instructions]

\* the same over the responses rs of an attempt, in the order received
RECURSIVE InstructionsOver(_, _)
InstructionsOver(rs, reached_only) ==
    IF rs = <<>> THEN <<>>
    ELSE InstructionsOver(SubSeq(rs, 1, Len(rs) - 1), reached_only)
            \o InstructionsIn(rs[Len(rs)], reached_only)

\* the instructions of the most recent hand-off request, "" when there is none
MostRecentInstruction(reached_only) ==
    LET q == InstructionsOver(received_calls, reached_only)
    IN  IF q = <<>> THEN "" ELSE q[Len(q)]

\* C31 (as stated): when next_agent supplies the hand-off target, the
\* instruction of the returned hand-off is the instructions argument of the
\* most recent hand-off request the model issued, whatever its target, and
\* "" when it issued none
C31_ForcedInstructionOfLastIssued ==
    (pc = "returned" /\ next_agent # None) =>
        /\ result.handoff.to = next_agent
        /\ result.handoff.instruction = MostRecentInstruction(FALSE)

\* C31 (amended): it is the instructions argument of the most recent
\* hand-off request the for loop handled, that is, not of a request listed
\* after a resolved hand-off request in the same response
C31_ForcedInstructionOfLastHandled ==
    (pc = "returned" /\ next_agent # None) =>
        /\ result.handoff.to = next_agent
        /\ result.handoff.instruction = MostRecentInstruction(TRUE)

\* a forced hand-off carries the instructions of an ignored request of the
\* first round, the second round having requested no hand-off
C31_Witness ==
    /\ pc = "returned"
    /\ next_agent # None
    /\ round_number = 2
    /\ ~HandoffRequested
    /\ result.handoff.instruction # ""
    /\ result.handoff.instruction = MostRecentInstruction(TRUE)

(***************************************************************************)
(* The result of a call.                                                   *)
(***************************************************************************)
Reasons == {"completed", "handoff", "work_done", "round_limit"}

\* the call is over and none of its completion requests or rounds raised
EndedWithoutFailure ==
    pc \in {"returned", "raised"} /\ attempt = 1 /\ error # "ProviderError"

\* C32: for every max_iterations >= 0 and every agent configuration a
\* process call that meets no provider failure returns normally, with a
\* reason among completed, handoff, work_done and round_limit
C32_ResultHasReason ==
    EndedWithoutFailure => (pc = "returned" /\ result.reason \in Reasons)

\* the same for calls whose max_iterations is not 0
ResultHasReasonUnlessZero == max_iterations # 0 => C32_ResultHasReason

\* what C33 says of a returned result whose call made at least one round
ConsistentResult ==
    /\ result.reason = rounds[Len(rounds)].reason
    /\ result.handoff # NoHandoff <=>
          \/ result.reason = "handoff"
          \/ (result.reason = "work_done" /\ next_agent # None)
    /\ result.reason \in {"completed", "round_limit"} => result.handoff = NoHandoff

C34_UsageKeysUnique ==
    [][\A k \in DOMAIN token_usage.by_round :
          /\ k \in DOMAIN token_usage'.by_round
          /\ token_usage'.by_round[k] = token_usage.by_round[k]
          /\ cost'.by_round[k] = cost.by_round[k]]_vars

\* within the first attempt of the first invocation the round numbers, and
\* so the keys, differ
UsageKeysUniqueInFirstAttempt ==
    [][(ncalls' = 1 /\ attempt' = 1) =>
          \A k \in DOMAIN token_usage.by_round :
              token_usage'.by_round[k] = token_usage.by_round[k]]_vars

(***************************************************************************)
(* The log window (utils/window.py): LogWindow objects and the             *)
(* interception of print.                                                  *)
(***************************************************************************)
\* the lines of a message: two texts and a line of white space
Lines == {"a", "b", " "}

\* not line.strip()
IsBlank(line) == line = " " \/ line = ""

\* a message as message.split("\n") returns it: one line or two
LogMessages == {<<l>> : l \in Lines} \cup {<<l, m>> : l, m \in Lines}

\* the level of the messages: the default of log and of intercept_print (no
\* message holds the word error or warning)
DefaultLevel == "INFO"

\* the Python slice s[-n:] for n >= 0: the last n elements, and the whole
\* list for n = 0, since -0 is 0
SliceFromMinus(s, n) ==
    IF n = 0 \/ n >= Len(s) THEN s ELSE SubSeq(s, Len(s) - n + 1, Len(s))

\* the entries log appends for the lines: one for every line that is not blank
EntriesOf(lines, level) ==
    LET keep(line) == ~IsBlank(line)
        kept == SelectSeq(lines, keep)
    IN  [k \in 1..Len(kept) |-> [level |-> level, line |-> kept[k]]]

\* LogWindow.log(message, level) on the window win
LogInto(win, lines, level) ==
    LET appended == win.logs \o EntriesOf(lines, level)
    IN  [win EXCEPT
            !.logs = IF Len(appended) > win.log_height
                     THEN SliceFromMinus(appended, win.log_height)
                     ELSE appended,
            !.logged = @ \o EntriesOf(lines, level)]

\* the number of lines logged to the windows w and above
RECURSIVE LoggedFrom(_)
LoggedFrom(w) ==
    IF w > MaxWindows THEN 0 ELSE Len(windows[w].logged) + LoggedFrom(w + 1)

\* the number of logged lines stays within the bound of the model
WithinLogged(lines) ==
    LoggedFrom(1) + Len(EntriesOf(lines, DefaultLevel)) <= MaxLogged

\* the variables no window step changes
winFrame == <<callVars, history, runVars, ctxVars, thrVars>>

InitWindows == Init /\ ~multi_turn /\ handoffs = <<"b">> /\ next_agent = None

\* LogWindow(log_height = h, intercept_print = ip): the constructor, which
\* calls intercept_print when asked to; that function keeps the current
\* builtins.print as its original_print and binds print to a custom_print
\* of the new window
NewWindow(w) ==
    /\ ~windows[w].created
    /\ w > 1 => windows[w - 1].created
    /\ \E h \in 0..MaxLogHeight, ip \in BOOLEAN :
        /\ windows' = [windows EXCEPT ![w] =
              [NoWindow EXCEPT !.created = TRUE, !.log_height = h, !.restore = ip,
                               !.original_print = IF ip THEN print_fn ELSE BuiltinPrint]]
        /\ print_fn' = IF ip THEN w ELSE print_fn
    /\ UNCHANGED winFrame

\* LogWindow.open
OpenWindow(w) ==
    /\ windows[w].created
    /\ windows' = [windows EXCEPT ![w].live = TRUE, ![w].hidden = FALSE,
                                  ![w].closed = FALSE]
    /\ UNCHANGED <<print_fn, winFrame>>

\* LogWindow.close: the display is stopped if there is one, and the restore
\* function of the interception is called if there is one
CloseWindow(w) ==
    /\ windows[w].created
    /\ windows' = [windows EXCEPT
          ![w].live = FALSE,
          ![w].hidden = IF windows[w].live THEN FALSE ELSE @,
          ![w].restore = FALSE,
          ![w].closed = TRUE]
    /\ print_fn' = IF windows[w].restore THEN windows[w].original_print ELSE print_fn
    /\ UNCHANGED winFrame

\* LogWindow.hide on the window win
Hidden(win) ==
    IF win.live /\ ~win.hidden THEN [win EXCEPT !.live = FALSE, !.hidden = TRUE] ELSE win

\* LogWindow.show on the window win
Shown(win) == IF win.hidden THEN [win EXCEPT !.live = TRUE, !.hidden = FALSE] ELSE win

\* window.hide() called on the window w
HideWindow(w) ==
    /\ windows[w].created
    /\ windows' = [windows EXCEPT ![w] = Hidden(@)]
    /\ UNCHANGED <<print_fn, winFrame>>

\* window.show() called on the window w
ShowWindow(w) ==
    /\ windows[w].created
    /\ windows' = [windows EXCEPT ![w] = Shown(@)]
    /\ UNCHANGED <<print_fn, winFrame>>

\* LogWindow.toggle_visibility
ToggleWindow(w) ==
    /\ windows[w].created
    /\ windows' = [windows EXCEPT ![w] = IF @.hidden THEN Shown(@) ELSE Hidden(@)]
    /\ UNCHANGED <<print_fn, winFrame>>

\* window.log(message) called on the window w
LogCall(w) ==
    /\ windows[w].created
    /\ \E lines \in LogMessages :
        /\ WithinLogged(lines)
        /\ windows' = [windows EXCEPT ![w] = LogInto(@, lines, DefaultLevel)]
    /\ UNCHANGED <<print_fn, winFrame>>

\* print(message) while print is bound to the custom_print of a window: the
\* message is logged to that window
PrintCall ==
    /\ print_fn # BuiltinPrint
    /\ \E lines \in LogMessages :
        /\ WithinLogged(lines)
        /\ windows' = [windows EXCEPT ![print_fn] = LogInto(@, lines, DefaultLevel)]
    /\ UNCHANGED <<print_fn, winFrame>>

NextWindows ==
    \/ \E w \in 1..MaxWindows : NewWindow(w)
    \/ \E w \in 1..MaxWindows : OpenWindow(w)
    \/ \E w \in 1..MaxWindows : CloseWindow(w)
    \/ \E w \in 1..MaxWindows : HideWindow(w)
    \/ \E w \in 1..MaxWindows : ShowWindow(w)
    \/ \E w \in 1..MaxWindows : ToggleWindow(w)
    \/ \E w \in 1..MaxWindows : LogCall(w)
    \/ PrintCall

SpecWindows == InitWindows /\ [][NextWindows]_vars

\* the last n elements of s, all of s when it has no more than n
LastEntries(s, n) == IF n >= Len(s) THEN s ELSE SubSeq(s, Len(s) - n + 1, Len(s))

\* C35: Log buffer bound.  After any sequence of log calls, for every
\* log_height >= 0, the stored log list of a window holds at most log_height
\* entries, and they are the most recently logged non-blank lines in logging
\* order.  (Violated for log_height = 0: the slice logs[-0:] is the whole
\* list, so nothing is ever removed.)
C35_LogBufferBound ==
    \A w \in 1..MaxWindows :
        windows[w].created =>
            /\ Len(windows[w].logs) <= windows[w].log_height
            /\ windows[w].logs = LastEntries(windows[w].logged, windows[w].log_height)

\* The bound holds for every log_height of at least one.
LogBufferBoundPositiveHeight ==
    \A w \in 1..MaxWindows :
        (windows[w].created /\ windows[w].log_height >= 1) =>
            /\ Len(windows[w].logs) <= windows[w].log_height
            /\ windows[w].logs = LastEntries(windows[w].logged, windows[w].log_height)

\* With log_height = 0 the list keeps every logged line.
LogBufferUnboundedAtZero ==
    \A w \in 1..MaxWindows :
        (windows[w].created /\ windows[w].log_height = 0) =>
            windows[w].logs = windows[w].logged

\* every window that intercepted print has been closed: no window holds a
\* restore function any more
InterceptionsClosed == \A w \in 1..MaxWindows : ~windows[w].restore

\* C36: Print interception is undone.  Once every window that intercepted
\* print has been closed, in whatever order the windows were created and
\* closed, print is the built-in function again, so that no closed window
\* receives print output.  (Violated by two intercepting windows closed in
\* the order of their creation: the second close binds print to the
\* custom_print of the first window.)
C36_PrintRestored == InterceptionsClosed => print_fn = BuiltinPrint

\* The interception is undone when no window intercepted print while another
\* interception was in place.
PrintRestoredWithoutNesting ==
    (/\ InterceptionsClosed
     /\ \A w \in 1..MaxWindows : windows[w].original_print = BuiltinPrint)
        => print_fn = BuiltinPrint

\* C37: Close resets the window.  After close(), whatever sequence of open,
\* hide, show and toggle_visibility calls preceded it, the window has no live
\* display and is not marked hidden, so that a later show() starts no display
\* on a closed window.  (Violated by open, hide, close: close resets hidden
\* only when there is a live display, and hide has removed it.)
C37_CloseResets ==
    \A w \in 1..MaxWindows :
        windows[w].closed => (~windows[w].live /\ ~windows[w].hidden)

\* Closing a window that is not hidden resets it, and every close leaves the
\* window without a live display.
CloseOfVisibleResets ==
    [][\A w \in 1..MaxWindows :
          CloseWindow(w) =>
              /\ ~windows'[w].live
              /\ ~windows[w].hidden => ~windows'[w].hidden]_vars

====
